---- MODULE Spec2Model ----
(***************************************************************************)
(* pdf-reader-ai: the session shell (page.tsx), the explanation panel      *)
(* (ExplanationPopover.tsx), the document surface (PDFViewer) and the      *)
(* /api/explain request boundary (route handler, three revisions).         *)
(***************************************************************************)
EXTENDS Integers, Sequences, FiniteSets, TLC

VARIABLES
    api,        \* the request boundary: one handler invocation at a time
    objectUrls, \* browser: object URLs created (URL.createObjectURL) and those revoked
    pdfUrl,     \* Home.pdfUrl
    urlInput,   \* Home.urlInput
    selection,  \* Home.selection
    model,      \* Home.model
    popover,    \* the mounted ExplanationPopover instance (props + state), or Unmounted
    inflight,   \* explanation requests sent by fetch() and not yet settled
    sent,       \* history: number of requests fetch() has sent
    sentFor,    \* history: number of requests sent for the current selection
    pressed,    \* where the mouse button currently held down was pressed
    selCount,   \* history: number of selections stored so far
    ev,         \* history: the last event handled
    scale,      \* PDFViewer.scale, in thousandths
    layout      \* the popover as laid out in the viewport

vars == <<api, objectUrls, pdfUrl, urlInput, selection, model, popover, inflight, sent, sentFor, pressed, selCount, ev, scale, layout>>

clientVars == <<objectUrls, pdfUrl, urlInput, selection, model, popover, inflight, sent, sentFor, pressed, selCount, ev, scale, layout>>

----------------------------------------------------------------------------
(* Bounds *)

MaxRequests == 2
MaxSelections == 2
MaxUploads == 2

----------------------------------------------------------------------------
(* JavaScript / JSON values.  A string is kept as its content tag s and its *)
(* length len (String.prototype.length); other values by their type tag.    *)

Undefined == [t |-> "undefined", s |-> "", len |-> 0]
JsNull == [t |-> "null", s |-> "null", len |-> 0]
Str(s, n) == [t |-> "string", s |-> s, len |-> n]
Num(s) == [t |-> "number", s |-> s, len |-> 0]
Bool(s) == [t |-> "boolean", s |-> s, len |-> 0]
\* an array holding one string: its property key is that string
Arr1(s) == [t |-> "array", s |-> s, len |-> 1]
\* a function / object inherited from Object.prototype
Inherited(s) == [t |-> "object", s |-> s, len |-> 0]

\* ToBoolean
Truthy(v) ==
    CASE v.t = "undefined" -> FALSE
      [] v.t = "null" -> FALSE
      [] v.t = "string" -> v.len > 0
      [] v.t = "number" -> v.s # "0"
      [] v.t = "boolean" -> v.s = "true"
      [] OTHER -> TRUE

\* a || b
OrElse(a, b) == IF Truthy(a) THEN a ELSE b

\* ToPropertyKey
PropertyKey(v) == v.s

ObjectPrototypeKeys == {"constructor", "toString", "__proto__"}

MaxTextLength == 2000

MinSelectionLength == 3

\* a string literal of the source, with its length
Lit(s) ==
    Str(s, CASE s = "gpt-4o-mini" -> 11
             [] s = "gpt-4o" -> 6
             [] s = "o1-mini" -> 7
             [] s = "fast" -> 4
             [] s = "balanced" -> 8
             [] s = "thinking" -> 8
             [] s = "turbo" -> 5
             [] s = "constructor" -> 11
             [] OTHER -> 1)

----------------------------------------------------------------------------
(* The request boundary: POST /api/explain.  Three revisions of the route   *)
(* handler are in the repository.                                           *)

Revisions == {"part_000", "part_001a", "part_001b"}

\* process.env.OPENAI_API_KEY
ApiKeys == {"absent", "empty", "set"}

\* the MODELS table of a revision (part_000 has none: the model is fixed)
MODELS(rev) ==
    CASE rev = "part_001a" -> [k \in {"gpt-4o-mini", "gpt-4o"} |-> k]
      [] rev = "part_001b" ->
            [k \in {"fast", "balanced", "thinking"} |->
                CASE k = "fast" -> "gpt-4o-mini"
                  [] k = "balanced" -> "gpt-4o"
                  [] OTHER -> "o1-mini"]
      [] OTHER -> [k \in {} |-> ""]

DefaultTier(rev) == IF rev = "part_001b" THEN "fast" ELSE "gpt-4o-mini"

\* MODELS[key]: an own property, else what Object.prototype supplies
Lookup(rev, key) ==
    IF key \in DOMAIN MODELS(rev) THEN Lit(MODELS(rev)[key])
    ELSE IF key \in ObjectPrototypeKeys THEN Inherited(key)
    ELSE Undefined

\* const { text, model = <default> } = body: the default replaces undefined only
Destructured(rev, m) == IF m.t = "undefined" THEN Lit(DefaultTier(rev)) ELSE m

\* MODELS[model as ModelType] || MODELS.<default>
selectedModel(rev, m) ==
    IF rev = "part_000" THEN Lit("gpt-4o-mini")
    ELSE OrElse(Lookup(rev, PropertyKey(Destructured(rev, m))),
                Lookup(rev, DefaultTier(rev)))

\* model === "thinking"
isThinkingModel(rev, m) ==
    /\ rev = "part_001b"
    /\ Destructured(rev, m).t = "string"
    /\ Destructured(rev, m).s = "thinking"

NoCreate == [model |-> Undefined, shape |-> "none", limit |-> "none",
             temperature |-> "none", text |-> Undefined]

\* the argument of openai.chat.completions.create
CreateArgs(rev, text, m) ==
    IF isThinkingModel(rev, m)
    THEN [model |-> selectedModel(rev, m), shape |-> "user",
          limit |-> "max_completion_tokens=300", temperature |-> "none",
          text |-> text]
    ELSE [model |-> selectedModel(rev, m), shape |-> "system+user",
          limit |-> "max_tokens=200", temperature |-> "0.3", text |-> text]

NoResp == [status |-> 0, error |-> "", explanation |-> "", json |-> FALSE]
JsonError(status, msg) == [status |-> status, error |-> msg, explanation |-> "", json |-> TRUE]
JsonOk(expl) == [status |-> 200, error |-> "", explanation |-> expl, json |-> TRUE]
\* the platform's answer when the route module cannot be evaluated
PlatformFailure == [status |-> 500, error |-> "", explanation |-> "", json |-> FALSE]

\* a thrown value
Thrown(isApi, status, msg) == [apiError |-> isApi, status |-> status, message |-> msg]
NoError == Thrown(FALSE, 0, "")

\* the catch block without the 429 branch
Catch_NoRateLimit(rev, err) ==
    IF rev = "part_000"
    THEN IF err.apiError /\ err.status = 401 THEN JsonError(401, "Invalid API key")
         ELSE JsonError(500, "Failed to generate explanation")
    ELSE IF err.status = 401 THEN JsonError(401, "Invalid API key")
         ELSE JsonError(500, IF err.message # "" THEN err.message
                             ELSE "Failed to generate explanation")

\* the catch block
Catch(rev, err) ==
    IF rev = "part_000"
    THEN IF err.apiError /\ err.status = 401 THEN JsonError(401, "Invalid API key")
         ELSE IF err.apiError /\ err.status = 429
              THEN JsonError(429, "Rate limit exceeded. Please try again.")
         ELSE JsonError(500, "Failed to generate explanation")
    ELSE IF err.status = 401 THEN JsonError(401, "Invalid API key")
         ELSE IF err.status = 429
              THEN JsonError(429, "Rate limit exceeded. Please try again.")
         ELSE JsonError(500, IF err.message # "" THEN err.message
                             ELSE "Failed to generate explanation")

\* a request body as request.json() sees it
Body(kind, text, m) == [kind |-> kind, text |-> text, model |-> m]

Returned(resp) == [done |-> TRUE, crashed |-> FALSE, resp |-> resp, create |-> NoCreate]
Calling(args) == [done |-> FALSE, crashed |-> FALSE, resp |-> NoResp, create |-> args]

\* Validate without the check on text.length
Validate_NoLengthCheck(rev, body) ==
    IF body.kind = "invalid"
    THEN Returned(Catch(rev, Thrown(FALSE, 0, "Unexpected token in JSON")))
    ELSE IF body.kind = "null"
    THEN Returned(Catch(rev, Thrown(FALSE, 0, "Cannot destructure property 'text'")))
    ELSE IF ~Truthy(body.text) \/ body.text.t # "string"
    THEN Returned(JsonError(400, "Text is required"))
    ELSE Calling(CreateArgs(rev, body.text, body.model))

\* request.json(), destructuring and the two checks on text
Validate(rev, body) ==
    IF body.kind = "invalid"
    THEN Returned(Catch(rev, Thrown(FALSE, 0, "Unexpected token in JSON")))
    ELSE IF body.kind = "null"
    THEN Returned(Catch(rev, Thrown(FALSE, 0, "Cannot destructure property 'text'")))
    ELSE IF ~Truthy(body.text) \/ body.text.t # "string"
    THEN Returned(JsonError(400, "Text is required"))
    ELSE IF body.text.len > MaxTextLength
    THEN Returned(JsonError(400, "Text too long. Please select a shorter passage."))
    ELSE Calling(CreateArgs(rev, body.text, body.model))

\* POST up to its first await of the upstream call, or to its return
PostStart(rev, apiKey, body) ==
    IF rev = "part_000"
    THEN \* the client is constructed when the module is evaluated; the
         \* constructor throws on an undefined apiKey, so the handler never runs
         IF apiKey = "absent"
         THEN [done |-> TRUE, crashed |-> TRUE, resp |-> PlatformFailure, create |-> NoCreate]
         ELSE Validate(rev, body)
    ELSE IF apiKey # "set"
         THEN Returned(JsonError(500, "API key not configured"))
         ELSE Validate(rev, body)

\* PostFinish without the fallback string
PostFinish_NoFallback(rev, up) ==
    IF up.ok
    THEN JsonOk(IF up.content.t = "string" THEN up.content.s ELSE "")
    ELSE Catch(rev, up.err)

\* POST after the upstream call settled
PostFinish(rev, up) ==
    IF up.ok
    THEN JsonOk(OrElse(up.content, Str("Unable to generate explanation.", 31)).s)
    ELSE Catch(rev, up.err)

Contents == {Undefined, Str("", 0), Str("An explanation.", 15)}

UpstreamErrors ==
    {Thrown(TRUE, st, msg) : st \in {0, 400, 401, 429, 500}, msg \in {"", "upstream said no"}}
    \cup {Thrown(FALSE, 0, "fetch failed")}

NoOutcome == [ok |-> FALSE, content |-> Undefined, err |-> NoError]

UpstreamOutcomes ==
    {[ok |-> TRUE, content |-> c, err |-> NoError] : c \in Contents}
    \cup {[ok |-> FALSE, content |-> Undefined, err |-> e] : e \in UpstreamErrors}

\* the whole handler, given how the upstream call (if made) settles
POST(rev, apiKey, body, up) ==
    LET st == PostStart(rev, apiKey, body)
    IN  IF st.done THEN st.resp ELSE PostFinish(rev, up)

\* the inputs a caller can put in the request body
TextInputs ==
    {Undefined, JsNull, Num("0"), Num("123"), Bool("false"), Arr1("entropy"),
     Str("", 0), Str("abc", MinSelectionLength), Str("entropy", 7),
     Str("limit", MaxTextLength),
     Str("over", MaxTextLength + 1)}

ModelInputs ==
    {Undefined, JsNull, Num("0"), Arr1("thinking"), Arr1("gpt-4o"),
     Lit("fast"), Lit("balanced"), Lit("thinking"), Lit("gpt-4o-mini"),
     Lit("gpt-4o"), Lit("turbo"), Lit("constructor")}

Bodies ==
    {Body("invalid", Undefined, Undefined), Body("null", Undefined, Undefined)}
    \cup {Body("object", t, m) : t \in TextInputs, m \in ModelInputs}

NoBody == Body("none", Undefined, Undefined)

ApiIdle(rev, apiKey) ==
    [pc |-> "idle", rev |-> rev, apiKey |-> apiKey, body |-> NoBody,
     create |-> NoCreate, calls |-> 0, up |-> NoOutcome, resp |-> NoResp,
     crashed |-> FALSE]

\* a request arrives: the handler runs to its return or to the upstream call
ApiReceive(body) ==
    /\ api.pc = "idle"
    /\ LET st == PostStart(api.rev, api.apiKey, body)
       IN  api' = [api EXCEPT !.pc = IF st.done THEN "done" ELSE "upstream",
                              !.body = body,
                              !.create = st.create,
                              !.calls = IF st.done THEN 0 ELSE 1,
                              !.resp = st.resp,
                              !.crashed = st.crashed]
    /\ UNCHANGED clientVars

\* the upstream call settles: the handler returns
ApiSettle(up) ==
    /\ api.pc = "upstream"
    /\ api' = [api EXCEPT !.pc = "done", !.up = up, !.resp = PostFinish(api.rev, up)]
    /\ UNCHANGED clientVars

\* the response is sent; the boundary keeps no state
ApiReset ==
    /\ api.pc = "done"
    /\ api' = ApiIdle(api.rev, api.apiKey)
    /\ UNCHANGED clientVars

----------------------------------------------------------------------------
(* The client: Home (page.tsx), PDFViewer and ExplanationPopover.           *)

NoUrl == [kind |-> "null", s |-> "", n |-> 0]
Remote(s) == [kind |-> "remote", s |-> s, n |-> 0]
\* the n-th string returned by URL.createObjectURL: "blob:..."
Blob(n) == [kind |-> "blob", s |-> "blob:", n |-> n]

\* pdfUrl?.startsWith("blob:")
IsBlob(u) == u.kind = "blob"

UrlInputs == {"", "   ", " https://x/a.pdf "}

\* String.prototype.trim on the url input
TrimUrl(u) ==
    CASE u = "   " -> ""
      [] u = " https://x/a.pdf " -> "https://x/a.pdf"
      [] OTHER -> u

FileTypes == {"application/pdf", "image/png"}

ModelTypes == {"gpt-4o-mini", "gpt-4o"}

Positions ==
    {[right |-> 400, top |-> 100, bottom |-> 120],
     [right |-> 300, top |-> 700, bottom |-> 720]}

NoPosition == [right |-> 0, top |-> 0, bottom |-> 0]

NoSelection == [text |-> Undefined, position |-> NoPosition, id |-> 0]

\* the platform selection at a mouse-up: the text between the surrounding
\* whitespace (core) and the number of surrounding whitespace characters
RawSelection(core, pad) == [core |-> core, pad |-> pad]

NoRaw == RawSelection(Undefined, 0)

RawSelections ==
    {RawSelection(Str("", 0), 0), RawSelection(Str("", 0), 2),
     RawSelection(Str("ab", 2), 1), RawSelection(Str("abc", 3), 0),
     RawSelection(Str("entropy", 7), 1),
     RawSelection(Str("over", MaxTextLength + 1), 0)}

\* selection.toString().length
RawLength(raw) == raw.core.len + raw.pad

\* selection?.toString().trim()
Trim(raw) == raw.core

Targets == {"panel", "surface", "header"}

\* errorFor / explanationFor / settledFor: the selection whose request set
\* error / explanation / loading = false (history, not read by the code)
Unmounted ==
    [mounted |-> FALSE, inst |-> 0, text |-> Undefined, model |-> "",
     loading |-> FALSE, error |-> "", explanation |-> "",
     errorFor |-> 0, explanationFor |-> 0, settledFor |-> 0]

\* the last event: its type, the popover being mounted when it arrived, and
\* for a mouse-up the platform selection and its rectangle
NoEvent == [type |-> "none", wasMounted |-> FALSE, raw |-> NoRaw, position |-> NoPosition]

Event(type) == [NoEvent EXCEPT !.type = type, !.wasMounted = popover.mounted]

\* fetch("/api/explain", { body: JSON.stringify({ text, model }) })
Request(id, inst, sel, text, m) ==
    [id |-> id, inst |-> inst, sel |-> sel, text |-> text, model |-> m]

\* the fetchExplanation effect up to its await: setLoading(true),
\* setError(null), and the request is sent
fetchExplanation(p, sel, m) ==
    /\ sent < MaxRequests
    /\ popover' = [p EXCEPT !.text = sel.text, !.model = m,
                            !.loading = TRUE, !.error = "", !.errorFor = 0,
                            !.settledFor = 0]
    /\ sent' = sent + 1
    /\ sentFor' = (IF sel.id = selection.id THEN sentFor ELSE 0) + 1
    /\ inflight' = inflight \cup {Request(sent + 1, p.inst, sel.id, sel.text, m)}

\* Home renders with the new state: the popover is mounted iff a document is
\* shown and selection is non-null; the effect runs on mount and whenever
\* text or model differ from the last run ([text, model])
Render(url, sel, m) ==
    IF url = NoUrl \/ sel = NoSelection
    THEN /\ popover' = Unmounted
         /\ sentFor' = 0
         /\ UNCHANGED <<sent, inflight>>
    ELSE IF ~popover.mounted
    THEN fetchExplanation([Unmounted EXCEPT !.mounted = TRUE, !.inst = sent + 1],
                          sel, m)
    ELSE IF popover.text # sel.text \/ popover.model # m
    THEN fetchExplanation(popover, sel, m)
    ELSE /\ sentFor' = IF sel.id = selection.id THEN sentFor ELSE 0
         /\ UNCHANGED <<popover, sent, inflight>>

\* useState<number>(1.2).  scale is a double; it is kept in thousandths, and
\* the sum s + 0.2 or s - 0.2 as rounded lies within one unit of the exact one
InitialScale == 1200
ZoomStep == 200
MinScale == 500
MaxScale == 3000
RoundingErrors == {-1, 0, 1}

\* the popover before it is laid out
NoLayout == [placed |-> FALSE, innerHeight |-> 0, right |-> 0, top |-> 0, height |-> 0]

Init ==
    /\ api = ApiIdle("part_001b", "set")
    /\ objectUrls = [created |-> 0, revoked |-> {}]
    /\ pdfUrl = NoUrl
    /\ urlInput = ""
    /\ selection = NoSelection
    /\ model = "gpt-4o-mini"
    /\ popover = Unmounted
    /\ inflight = {}
    /\ sent = 0
    /\ sentFor = 0
    /\ pressed = "none"
    /\ selCount = 0
    /\ ev = NoEvent
    /\ scale = InitialScale
    /\ layout = NoLayout

\* URL.revokeObjectURL(pdfUrl) when pdfUrl is a blob URL
Revoked(urls) ==
    IF IsBlob(pdfUrl) THEN [urls EXCEPT !.revoked = @ \cup {pdfUrl.n}] ELSE urls

\* onChange of the url input (landing page)
setUrlInput(v) ==
    /\ pdfUrl = NoUrl
    /\ urlInput # v
    /\ urlInput' = v
    /\ ev' = Event("input")
    /\ UNCHANGED <<scale, layout, api, objectUrls, pdfUrl, selection, model, popover, inflight,
                   sent, sentFor, pressed, selCount>>

\* onSubmit of the url form (landing page)
handleUrlSubmit ==
    /\ pdfUrl = NoUrl
    /\ IF TrimUrl(urlInput) # ""
       THEN /\ objectUrls' = Revoked(objectUrls)
            /\ pdfUrl' = Remote(TrimUrl(urlInput))
            /\ selection' = NoSelection
            /\ Render(Remote(TrimUrl(urlInput)), NoSelection, model)
       ELSE UNCHANGED <<objectUrls, pdfUrl, selection, popover, sent, sentFor, inflight>>
    /\ ev' = Event("urlSubmit")
    /\ UNCHANGED <<scale, layout, api, urlInput, model, pressed, selCount>>

\* handleFileChange / handleDrop with a file (landing page)
handleFileUpload(fileType) ==
    /\ pdfUrl = NoUrl
    /\ IF fileType # "application/pdf"
       THEN UNCHANGED <<objectUrls, pdfUrl, selection, urlInput, popover, sent,
                        sentFor, inflight>>
       ELSE /\ objectUrls.created < MaxUploads
            /\ objectUrls' = [Revoked(objectUrls) EXCEPT !.created = @ + 1]
            /\ pdfUrl' = Blob(objectUrls.created + 1)
            /\ selection' = NoSelection
            /\ urlInput' = ""
            /\ Render(Blob(objectUrls.created + 1), NoSelection, model)
    /\ ev' = Event(IF fileType = "application/pdf" THEN "fileUpload" ELSE "fileRejected")
    /\ UNCHANGED <<scale, layout, api, model, pressed, selCount>>

\* handleBack without URL.revokeObjectURL
handleBack_NoRevoke ==
    /\ pdfUrl # NoUrl
    /\ pdfUrl' = NoUrl
    /\ selection' = NoSelection
    /\ urlInput' = ""
    /\ Render(NoUrl, NoSelection, model)
    /\ ev' = Event("back")
    /\ UNCHANGED <<scale, layout, api, objectUrls, model, pressed, selCount>>

\* handleBack without setSelection(null)
handleBack_KeepsSelection ==
    /\ pdfUrl # NoUrl
    /\ objectUrls' = Revoked(objectUrls)
    /\ pdfUrl' = NoUrl
    /\ urlInput' = ""
    /\ Render(NoUrl, selection, model)
    /\ ev' = Event("back")
    /\ UNCHANGED <<scale, layout, api, selection, model, pressed, selCount>>

\* onClick of Back (viewer header)
handleBack ==
    /\ pdfUrl # NoUrl
    /\ objectUrls' = Revoked(objectUrls)
    /\ pdfUrl' = NoUrl
    /\ selection' = NoSelection
    /\ urlInput' = ""
    /\ Render(NoUrl, NoSelection, model)
    /\ ev' = Event("back")
    /\ UNCHANGED <<scale, layout, api, model, pressed, selCount>>

\* onClick of a model option (viewer header)
setModel(m) ==
    /\ pdfUrl # NoUrl
    /\ model # m
    /\ model' = m
    /\ Render(pdfUrl, selection, m)
    /\ ev' = Event("setModel")
    /\ UNCHANGED <<scale, layout, api, objectUrls, pdfUrl, urlInput, selection, pressed, selCount>>

\* onClose: setSelection(null); the platform selection is cleared
handleClosePopover ==
    /\ selection' = NoSelection
    /\ Render(pdfUrl, NoSelection, model)

\* handleClickOutside registered for "click", which follows the release
handleClickOutside_OnClick(target) ==
    /\ pdfUrl # NoUrl
    /\ pressed = "none"
    /\ target = "panel" => popover.mounted
    /\ pressed' = target
    /\ UNCHANGED <<selection, popover, sent, sentFor, inflight>>
    /\ ev' = Event(IF target = "panel" THEN "mousedownInside" ELSE "mousedownOutside")
    /\ UNCHANGED <<scale, layout, api, objectUrls, pdfUrl, urlInput, model, selCount>>

\* document "mousedown": handleClickOutside runs while the popover is mounted
handleClickOutside(target) ==
    /\ pdfUrl # NoUrl
    /\ pressed = "none"
    /\ target = "panel" => popover.mounted
    /\ pressed' = target
    /\ IF popover.mounted /\ target # "panel"
       THEN handleClosePopover
       ELSE UNCHANGED <<selection, popover, sent, sentFor, inflight>>
    /\ ev' = Event(IF target = "panel" THEN "mousedownInside" ELSE "mousedownOutside")
    /\ UNCHANGED <<scale, layout, api, objectUrls, pdfUrl, urlInput, model, selCount>>

\* document "keydown" with key Escape: handleEscape (popover mounted)
handleEscape ==
    /\ popover.mounted
    /\ handleClosePopover
    /\ ev' = Event("escape")
    /\ UNCHANGED <<scale, layout, api, objectUrls, pdfUrl, urlInput, model, pressed, selCount>>

\* onClick of the popover's close button
ClickClose ==
    /\ popover.mounted
    /\ handleClosePopover
    /\ ev' = Event("close")
    /\ UNCHANGED <<scale, layout, api, objectUrls, pdfUrl, urlInput, model, pressed, selCount>>

\* handleTextSelect with the threshold off by one: text.length >= 2
handleTextSelect_OffByOne(text, position) ==
    IF text.len >= MinSelectionLength - 1
    THEN /\ selCount < MaxSelections
         /\ selCount' = selCount + 1
         /\ selection' = [text |-> text, position |-> position, id |-> selCount + 1]
         /\ Render(pdfUrl, [text |-> text, position |-> position, id |-> selCount + 1], model)
    ELSE UNCHANGED <<selCount, selection, popover, sent, sentFor, inflight>>

\* if (text.length >= 3) setSelection({ text, position })
handleTextSelect(text, position) ==
    IF text.len >= MinSelectionLength
    THEN /\ selCount < MaxSelections
         /\ selCount' = selCount + 1
         /\ selection' = [text |-> text, position |-> position, id |-> selCount + 1]
         /\ Render(pdfUrl, [text |-> text, position |-> position, id |-> selCount + 1], model)
    ELSE UNCHANGED <<selCount, selection, popover, sent, sentFor, inflight>>

\* container "mouseup": the platform selection is read, trimmed and reported
handleMouseUp(raw, position) ==
    /\ pdfUrl # NoUrl
    /\ pressed # "none"
    /\ pressed' = "none"
    /\ IF Truthy(Trim(raw)) /\ Trim(raw).len > 0
       THEN handleTextSelect(Trim(raw), position)
       ELSE UNCHANGED <<selCount, selection, popover, sent, sentFor, inflight>>
    /\ ev' = [Event("mouseup") EXCEPT !.raw = raw, !.position = position]
    /\ UNCHANGED <<scale, layout, api, objectUrls, pdfUrl, urlInput, model>>

\* the button is released outside the rendering area: no listener
MouseUpElsewhere ==
    /\ pressed # "none"
    /\ pressed' = "none"
    /\ ev' = Event("mouseupElsewhere")
    /\ UNCHANGED <<scale, layout, api, objectUrls, pdfUrl, urlInput, selection, model, popover,
                   inflight, sent, sentFor, selCount>>

\* what fetch() and response.json() give the effect: a network failure, or
\* the boundary's response under some deployment and upstream outcome
NetworkFailure == [status |-> 0, error |-> "Failed to fetch", explanation |-> "", json |-> FALSE]

\* the upstream outcomes a session is run against
SessionOutcomes ==
    {up \in UpstreamOutcomes :
        \/ up.ok /\ up.content # Undefined
        \/ ~up.ok /\ up.err.apiError /\ up.err.status = 429 /\ up.err.message = ""}

Responses(req) ==
    {POST(rev, key, Body("object", req.text, Lit(req.model)), up) :
        rev \in Revisions, key \in {"absent", "set"}, up \in SessionOutcomes}

\* the rest of fetchExplanation: what it passes to setExplanation or setError
ClientResult(resp) ==
    IF resp = NetworkFailure
    THEN [ok |-> FALSE, explanation |-> "", error |-> resp.error]
    ELSE IF ~resp.json
    THEN [ok |-> FALSE, explanation |-> "", error |-> "Unexpected token in JSON"]
    ELSE IF ~(resp.status >= 200 /\ resp.status <= 299)
    THEN [ok |-> FALSE, explanation |-> "",
          error |-> IF resp.error # "" THEN resp.error ELSE "Failed to get explanation"]
    ELSE [ok |-> TRUE, explanation |-> resp.explanation, error |-> ""]

\* Delivered with the explanation state shared by all popover instances
Delivered_IgnoresInstance(p, req, res) ==
    IF p.mounted
    THEN IF res.ok
         THEN [p EXCEPT !.explanation = res.explanation, !.explanationFor = req.sel,
                        !.loading = FALSE, !.settledFor = req.sel]
         ELSE [p EXCEPT !.error = res.error, !.errorFor = req.sel,
                        !.loading = FALSE, !.settledFor = req.sel]
    ELSE p

\* state updates reach the popover instance that sent the request, if it is
\* still mounted; on an unmounted instance they have no effect
Delivered(p, req, res) ==
    IF p.mounted /\ p.inst = req.inst
    THEN IF res.ok
         THEN [p EXCEPT !.explanation = res.explanation, !.explanationFor = req.sel,
                        !.loading = FALSE, !.settledFor = req.sel]
         ELSE [p EXCEPT !.error = res.error, !.errorFor = req.sel,
                        !.loading = FALSE, !.settledFor = req.sel]
    ELSE p

\* Settle with a retry: a failed request is sent again
Settle_Retries(req, resp) ==
    /\ req \in inflight
    /\ IF ~ClientResult(resp).ok /\ sent < MaxRequests
       THEN /\ inflight' = (inflight \ {req}) \cup
                    {Request(sent + 1, req.inst, req.sel, req.text, req.model)}
            /\ sent' = sent + 1
            /\ UNCHANGED popover
       ELSE /\ inflight' = inflight \ {req}
            /\ popover' = Delivered(popover, req, ClientResult(resp))
            /\ UNCHANGED sent
    /\ ev' = Event("settle")
    /\ UNCHANGED <<scale, layout, api, objectUrls, pdfUrl, urlInput, selection, model,
                   sentFor, pressed, selCount>>

\* a request settles: the continuation of fetchExplanation runs
Settle(req, resp) ==
    /\ req \in inflight
    /\ inflight' = inflight \ {req}
    /\ popover' = Delivered(popover, req, ClientResult(resp))
    /\ ev' = Event("settle")
    /\ UNCHANGED <<scale, layout, api, objectUrls, pdfUrl, urlInput, selection, model, sent,
                   sentFor, pressed, selCount>>

Next ==
    \/ \E v \in UrlInputs : setUrlInput(v)
    \/ handleUrlSubmit
    \/ \E f \in FileTypes : handleFileUpload(f)
    \/ handleBack
    \/ \E m \in ModelTypes : setModel(m)
    \/ \E t \in Targets : handleClickOutside(t)
    \/ \E raw \in RawSelections, pos \in Positions : handleMouseUp(raw, pos)
    \/ MouseUpElsewhere
    \/ handleEscape
    \/ ClickClose
    \/ \E req \in inflight : \E resp \in Responses(req) \cup {NetworkFailure} :
          Settle(req, resp)

Spec == Init /\ [][Next]_vars

\* the boundary on its own: any deployment, any request body
ApiInit ==
    /\ \E rev \in Revisions, key \in ApiKeys : api = ApiIdle(rev, key)
    /\ objectUrls = [created |-> 0, revoked |-> {}]
    /\ pdfUrl = NoUrl
    /\ urlInput = ""
    /\ selection = NoSelection
    /\ model = "gpt-4o-mini"
    /\ popover = Unmounted
    /\ inflight = {}
    /\ sent = 0
    /\ sentFor = 0
    /\ pressed = "none"
    /\ selCount = 0
    /\ ev = NoEvent
    /\ scale = InitialScale
    /\ layout = NoLayout

ApiNext ==
    \/ \E body \in Bodies : ApiReceive(body)
    \/ \E up \in UpstreamOutcomes : ApiSettle(up)
    \/ ApiReset

ApiSpec == ApiInit /\ [][ApiNext]_vars

----------------------------------------------------------------------------
(* What the popover renders *)

ShowsPending == popover.mounted /\ popover.loading
ShowsError == popover.mounted /\ popover.error # ""
ShowsExplanation == popover.mounted /\ popover.explanation # "" /\ ~popover.loading

\* the request a Settle step settled
Settled == inflight \ inflight'

----------------------------------------------------------------------------
(* Properties of the session *)

\* C1: while a selection is current, the panel shows only that selection's
\* outcome: the explanation shown, the error shown and the cleared pending
\* flag were all set by the response to a request made for that selection,
\* whatever the order in which responses arrive.
C1_OnlyCurrentOutcomeShown ==
    popover.mounted =>
        /\ ShowsExplanation => popover.explanationFor = selection.id
        /\ ShowsError => popover.errorFor = selection.id
        /\ ~popover.loading => popover.settledFor = selection.id

\* C2: no selection without a document, and every step that changes or
\* unloads the document leaves the selection null.
C2_SelectionNeverOutlivesDocument ==
    /\ [](pdfUrl = NoUrl => selection = NoSelection)
    /\ [][pdfUrl' # pdfUrl => selection' = NoSelection]_vars

\* Back has acted while a selection was active
C2_Witness ==
    ev.type = "back" /\ ev.wasMounted /\ pdfUrl = NoUrl /\ selection = NoSelection

\* C3 as stated: a mouse-up stores the reported text and geometry exactly
\* when the platform selection text is non-empty and at least 3 characters
\* long, and otherwise leaves the selection unchanged.
C3_StoredIffPlatformTextLongEnough ==
    [][ev'.type = "mouseup" =>
        IF RawLength(ev'.raw) > 0 /\ RawLength(ev'.raw) >= MinSelectionLength
        THEN /\ selection'.text = Trim(ev'.raw)
             /\ selection'.position = ev'.position
             /\ selection'.id # selection.id
        ELSE selection' = selection]_vars

\* C3 amended: a mouse-up stores the trimmed text and the geometry, and the
\* panel is mounted, exactly when the platform selection text with its
\* surrounding whitespace removed is at least 3 characters long; otherwise
\* the selection and the panel are left unchanged.
C3_StoredIffTrimmedTextLongEnough ==
    [][ev'.type = "mouseup" =>
        IF Trim(ev'.raw).len >= MinSelectionLength
        THEN /\ selection'.text = Trim(ev'.raw)
             /\ selection'.position = ev'.position
             /\ selection'.id # selection.id
             /\ popover'.mounted
             /\ popover'.text = Trim(ev'.raw)
        ELSE /\ selection' = selection
             /\ popover' = popover]_vars

\* a mouse-up over whitespace-padded text stored the trimmed text
C3_Witness ==
    /\ ev.type = "mouseup"
    /\ ev.raw.pad > 0
    /\ RawLength(ev.raw) > selection.text.len
    /\ selection.text = Trim(ev.raw)
    /\ selection.position = ev.position
    /\ popover.mounted

\* C4: Escape, a mouse press outside the panel and Back each leave the
\* selection null and the panel unmounted; a panel is mounted only for a
\* selection; a response to a request of an unmounted panel changes nothing
\* that is displayed, and a newly mounted panel starts pending and empty.
C4_DismissalDiscardsResult ==
    /\ [](selection = NoSelection => popover = Unmounted)
    /\ [][/\ ev'.type \in {"escape", "mousedownOutside", "back"}
             => selection' = NoSelection /\ popover' = Unmounted
          /\ (ev'.type = "settle" /\ \A r \in Settled : r.inst # popover.inst)
             => popover' = popover
          /\ (~popover.mounted /\ popover'.mounted)
             => /\ popover'.loading
                /\ popover'.error = ""
                /\ popover'.explanation = ""]_vars

\* a response arrived for a panel that was dismissed, while a newer panel is up
C4_Witness ==
    /\ ev.type = "settle"
    /\ popover.mounted
    /\ popover.loading
    /\ popover.inst > 1
    /\ \A r \in inflight : r.inst = popover.inst

\* C5: a mounted panel renders exactly one of pending, failed, succeeded.
C5_ExactlyOneShape ==
    popover.mounted =>
        /\ ShowsPending \/ ShowsError \/ ShowsExplanation
        /\ ~(ShowsPending /\ ShowsError)
        /\ ~(ShowsPending /\ ShowsExplanation)
        /\ ~(ShowsError /\ ShowsExplanation)

----------------------------------------------------------------------------
(* Properties of the request boundary (ApiSpec) *)

\* text is absent, not a string, empty, or longer than 2000 characters
InvalidText(body) ==
    /\ body.kind = "object"
    /\ \/ body.text.t # "string"
       \/ body.text.len = 0
       \/ body.text.len > MaxTextLength

\* a tier name the revision's MODELS table has
Recognized(rev, m) == m.t = "string" /\ m.s \in DOMAIN MODELS(rev)

\* C7 as stated: a request with invalid text is answered 400 with no
\* upstream call, whatever the server configuration.
C7_InvalidTextAlways400 ==
    (api.pc # "idle" /\ InvalidText(api.body)) =>
        /\ api.pc = "done"
        /\ api.resp.status = 400
        /\ api.calls = 0

\* C7 amended: a request with invalid text never reaches the upstream call;
\* it is answered 400 when the credential is configured and 500 when the
\* credential is absent.
C7_InvalidTextNoUpstreamCall ==
    (api.pc # "idle" /\ InvalidText(api.body)) =>
        /\ api.pc = "done"
        /\ api.calls = 0
        /\ api.create = NoCreate
        /\ api.apiKey = "set" => api.resp.status = 400 /\ api.resp.error # ""
        /\ api.apiKey = "absent" => api.resp.status = 500

\* an over-long text was rejected with 400 under a configured credential
C7_Witness ==
    /\ api.pc = "done"
    /\ api.apiKey = "set"
    /\ api.body.kind = "object"
    /\ api.body.text.t = "string"
    /\ api.body.text.len > MaxTextLength
    /\ api.resp.status = 400
    /\ api.calls = 0

\* C8: a failed upstream call is answered after exactly one call: 401 for an
\* upstream 401, 429 with the rate-limit message for an upstream 429, and
\* 500 for every other failure, always with an error message.
C8_UpstreamFailureMapped ==
    (api.pc = "done" /\ api.calls > 0 /\ ~api.up.ok) =>
        /\ api.calls = 1
        /\ api.resp.json
        /\ api.resp.error # ""
        /\ api.resp.status =
              IF api.up.err.status = 401 THEN 401
              ELSE IF api.up.err.status = 429 THEN 429
              ELSE 500
        /\ api.up.err.status = 429
              => api.resp.error = "Rate limit exceeded. Please try again."

\* an upstream 429 was answered with 429
C8_Witness ==
    /\ api.pc = "done"
    /\ api.calls = 1
    /\ ~api.up.ok
    /\ api.up.err.status = 429
    /\ api.resp.status = 429

\* C9: a request whose model is not a recognized tier name is handled as
\* the same request naming the default tier: same early return or same
\* upstream request, and no 400 on account of the model.
C9_UnrecognizedModelIsDefault ==
    (api.pc # "idle" /\ api.body.kind = "object"
        /\ ~Recognized(api.rev, api.body.model)) =>
        LET asDefault == PostStart(api.rev, api.apiKey,
                            [api.body EXCEPT !.model = Lit(DefaultTier(api.rev))])
        IN  /\ api.create = asDefault.create
            /\ api.pc = "upstream" => ~asDefault.done
            /\ (api.pc = "done" /\ api.calls = 0) => api.resp = asDefault.resp

\* C10: with the credential absent from the environment, every request is
\* answered 500 with an error body, without an upstream call and without the
\* handler crashing.
C10_MissingKeyIs500 ==
    (api.pc # "idle" /\ api.apiKey = "absent") =>
        /\ api.pc = "done"
        /\ api.resp.status = 500
        /\ api.resp.json
        /\ api.resp.error # ""
        /\ api.calls = 0
        /\ ~api.crashed

\* C11: with the credential configured, a text of 3 to 2000 characters and
\* an upstream call that completes, the response is 200 with a non-empty
\* explanation; when the upstream content is empty or missing the
\* explanation is the literal fallback string.
C11_ValidTextGetsExplanation ==
    (/\ api.pc = "done"
     /\ api.apiKey = "set"
     /\ api.body.kind = "object"
     /\ api.body.text.t = "string"
     /\ api.body.text.len >= MinSelectionLength
     /\ api.body.text.len <= MaxTextLength
     /\ api.up.ok) =>
        /\ api.calls = 1
        /\ api.resp.status = 200
        /\ api.resp.json
        /\ api.resp.explanation # ""
        /\ Truthy(api.up.content) => api.resp.explanation = api.up.content.s
        /\ ~Truthy(api.up.content)
              => api.resp.explanation = "Unable to generate explanation."

\* a text of the maximum length got the fallback for an empty upstream content
C11_Witness ==
    /\ api.pc = "done"
    /\ api.apiKey = "set"
    /\ api.body.text.len = MaxTextLength
    /\ api.up.ok
    /\ api.up.content = Str("", 0)
    /\ api.resp.status = 200
    /\ api.resp.explanation = "Unable to generate explanation."

----------------------------------------------------------------------------
(* Further properties of the session *)

\* C12: no request is sent to the boundary for a selection whose text is
\* longer than 2000 characters.
C12_NoRequestForOverlongText ==
    \A r \in inflight : r.text.len <= MaxTextLength

\* C13: every object URL created and not revoked is the current document
\* reference, the current document is never a revoked object URL, and an
\* object URL is revoked by the step that replaces or unloads its document.
C13_OnlyCurrentObjectUrlLive ==
    /\ [](/\ \A n \in 1..objectUrls.created :
                n \notin objectUrls.revoked => pdfUrl = Blob(n)
          /\ IsBlob(pdfUrl) => /\ pdfUrl.n \in 1..objectUrls.created
                               /\ pdfUrl.n \notin objectUrls.revoked)
    /\ [][(IsBlob(pdfUrl) /\ pdfUrl' # pdfUrl)
            => pdfUrl.n \in objectUrls'.revoked]_vars

\* a second file was uploaded after the first one was released by Back
C13_Witness ==
    /\ ev.type = "fileUpload"
    /\ objectUrls.created = 2
    /\ objectUrls.revoked = {1}
    /\ pdfUrl = Blob(2)

----------------------------------------------------------------------------
(* The document surface's zoom (PDFViewer) *)

sessionVars == <<api, objectUrls, pdfUrl, urlInput, selection, model, popover,
                 inflight, sent, sentFor, pressed, selCount>>

\* Math.min / Math.max
MathMin(a, b) == IF a < b THEN a ELSE b
MathMax(a, b) == IF a > b THEN a ELSE b

\* zoomIn's updater with the wrong upper bound
ZoomedIn_WrongBound(s, e) == MathMin(s + ZoomStep + e, MaxScale + ZoomStep)

\* (s) => Math.min(s + 0.2, 3), the sum rounded with error e
ZoomedIn(s, e) == MathMin(s + ZoomStep + e, MaxScale)

\* (s) => Math.max(s - 0.2, 0.5), the difference rounded with error e
ZoomedOut(s, e) == MathMax(s - ZoomStep + e, MinScale)

\* onClick of the "+" button
zoomIn(e) ==
    /\ pdfUrl # NoUrl
    /\ scale' = ZoomedIn(scale, e)
    /\ ev' = Event("zoomIn")
    /\ UNCHANGED <<sessionVars, layout>>

\* onClick of the "-" button
zoomOut(e) ==
    /\ pdfUrl # NoUrl
    /\ scale' = ZoomedOut(scale, e)
    /\ ev' = Event("zoomOut")
    /\ UNCHANGED <<sessionVars, layout>>

Keys == {"=", "+", "-", "0"}

\* window "keydown": the zoom shortcuts
handleKeyDown(metaOrCtrl, key, e) ==
    /\ pdfUrl # NoUrl
    /\ IF metaOrCtrl /\ key \in {"=", "+"}
       THEN scale' = ZoomedIn(scale, e) /\ ev' = Event("zoomIn")
       ELSE IF metaOrCtrl /\ key = "-"
       THEN scale' = ZoomedOut(scale, e) /\ ev' = Event("zoomOut")
       ELSE scale' = scale /\ ev' = Event("keydown")
    /\ UNCHANGED <<sessionVars, layout>>

\* a document is shown, so the viewer is mounted with its initial scale
ZoomInit ==
    /\ api = ApiIdle("part_001b", "set")
    /\ objectUrls = [created |-> 0, revoked |-> {}]
    /\ pdfUrl = Remote("https://x/a.pdf")
    /\ urlInput = " https://x/a.pdf "
    /\ selection = NoSelection
    /\ model = "gpt-4o-mini"
    /\ popover = Unmounted
    /\ inflight = {}
    /\ sent = 0
    /\ sentFor = 0
    /\ pressed = "none"
    /\ selCount = 0
    /\ ev = NoEvent
    /\ scale = InitialScale
    /\ layout = NoLayout

ZoomNext ==
    \/ \E e \in RoundingErrors : zoomIn(e)
    \/ \E e \in RoundingErrors : zoomOut(e)
    \/ \E m \in BOOLEAN, k \in Keys, e \in RoundingErrors : handleKeyDown(m, k, e)

ZoomSpec == ZoomInit /\ [][ZoomNext]_vars

\* C14: the scale stays within [0.5, 3.0]; a zoom-in either reaches 3.0 or
\* raises the scale by a step, and at 3.0 leaves it at 3.0; a zoom-out either
\* reaches 0.5 or lowers the scale by a step, and at 0.5 leaves it at 0.5.
C14_ZoomBoundedAndStable ==
    /\ [](scale >= MinScale /\ scale <= MaxScale)
    /\ [][/\ ev'.type = "zoomIn"
             => /\ scale' = MaxScale \/ scale' >= scale + ZoomStep - 1
                /\ scale = MaxScale => scale' = MaxScale
          /\ ev'.type = "zoomOut"
             => /\ scale' = MinScale \/ scale' <= scale - ZoomStep + 1
                /\ scale = MinScale => scale' = MinScale]_vars

\* a zoom-in has brought the scale to 3.0
C14_Witness == ev.type = "zoomIn" /\ scale = MaxScale

----------------------------------------------------------------------------
(* The popover's position (getPopoverStyle) *)

padding == 16
headerHeight == 56
\* the 60 of position.y - 60
SelectionOffset == 60
\* the 120px of max-h-[calc(100vh-120px)]
MaxHeightMargin == 120

\* JavaScript numbers: NaN or an integer number of pixels
NaN == [nan |-> TRUE, v |-> 0]
Number(v) == [nan |-> FALSE, v |-> v]

\* ToNumber of a property read: a missing property is undefined, hence NaN
ToNumber(obj, key) == IF key \in DOMAIN obj THEN Number(obj[key]) ELSE NaN

\* a - k
Minus(a, k) == IF a.nan THEN NaN ELSE Number(a.v - k)

\* a < k, false when a is NaN
LessThan(a, k) == ~a.nan /\ a.v < k

\* range.getBoundingClientRect() of a selection in the document surface
RectTops == {10, 100, 300, 500, 700, 880}
Rects == {[left |-> 100, top |-> t, width |-> 200, height |-> 20] : t \in RectTops}

\* the two revisions of PDFViewer.handleMouseUp
Viewers == {"point", "rectangle"}

\* the position handed to onTextSelect
ViewerPosition(viewer, rect) ==
    IF viewer = "point"
    THEN [x |-> rect.left + rect.width \div 2, y |-> rect.top]
    ELSE [right |-> rect.left + rect.width, top |-> rect.top,
          bottom |-> rect.top + rect.height]

\* getPopoverStyle: neither the viewport nor the panel's height is read
getPopoverStyle(position) ==
    LET top == Minus(ToNumber(position, "y"), SelectionOffset)
    IN  [right |-> padding,
         top |-> IF LessThan(top, headerHeight + padding)
                 THEN Number(headerHeight + padding)
                 ELSE top]

\* window.innerHeight, the height of the popover's content, and where a fixed
\* box with top: auto is put (its static position)
ViewportHeights == {600, 720, 900}
ContentHeights == {120, 300, 800}
StaticTops == {0, 2000}

\* max-h-[calc(100vh-120px)] overflow-y-auto
PanelHeight(innerHeight, contentHeight) ==
    MathMin(contentHeight, MathMax(innerHeight - MaxHeightMargin, 0))

\* the popover is rendered and laid out: style={{ right, top }} on a fixed
\* box; a top of NaN is not a length, so the box keeps top: auto
PaintPopover(innerHeight, contentHeight, staticTop) ==
    /\ popover.mounted
    /\ LET height == PanelHeight(innerHeight, contentHeight)
           style == getPopoverStyle(selection.position)
       IN  layout' = [placed |-> TRUE, innerHeight |-> innerHeight,
                      right |-> style.right,
                      top |-> IF style.top.nan THEN staticTop ELSE style.top.v,
                      height |-> height]
    /\ ev' = Event("paint")
    /\ UNCHANGED <<sessionVars, scale>>

LayoutNext ==
    \/ handleClickOutside("surface")
    \/ \E rect \in Rects, viewer \in Viewers :
          handleMouseUp(RawSelection(Str("entropy", 7), 1), ViewerPosition(viewer, rect))
    \/ \E h \in ViewportHeights, c \in ContentHeights, s \in StaticTops :
          PaintPopover(h, c, s)

LayoutSpec == ZoomInit /\ [][LayoutNext]_vars

\* C15: whatever the selection's geometry and the viewport's size, the panel
\* as placed has its top edge at or below the header band plus padding and its
\* bottom edge at or above the viewport's height minus the bottom padding.
C15_PanelStaysOnScreen ==
    layout.placed
        => /\ layout.top >= headerHeight + padding
           /\ layout.top + layout.height <= layout.innerHeight - padding

\* C16: a press outside the mounted panel clears the selection and unmounts
\* the panel in the same step, and a release in the document surface that
\* ends a gesture pressed outside the panel is handled with no selection
\* stored and no panel mounted; a selection it stores gets a new panel.
C16_PressClearsBeforeRelease ==
    [][/\ (ev'.type = "mousedownOutside" /\ popover.mounted)
            => (selection' = NoSelection /\ ~popover'.mounted)
       /\ (ev'.type = "mouseup" /\ pressed # "panel")
            => /\ selection = NoSelection
               /\ ~popover.mounted
               /\ selection' # NoSelection
                    => (popover'.mounted /\ popover'.inst = sent')]_vars

\* the button is held after a press in the document surface that found the
\* panel mounted
C16_Witness ==
    /\ ev.type = "mousedownOutside"
    /\ ev.wasMounted
    /\ pressed = "surface"
    /\ selection = NoSelection
    /\ ~popover.mounted

====
